---------------------------- MODULE Spec2Model ----------------------------
(***************************************************************************)
(* Model of the Chronos Discord plugin (plugin.ts): the MESSAGE_RECEIVED   *)
(* handler that downloads every image attachment, runs the Chronos         *)
(* pipeline on it as a child process, parses the delimited results block   *)
(* out of stdout, formats a report, splits it into Discord sized chunks    *)
(* and delivers them through the callback.                                 *)
(*                                                                         *)
(* Text is a sequence of atoms.  An atom is one UTF-16 code unit, or a     *)
(* literal of the program that no operation of the program ever cuts       *)
(* (a marker, a run of letters); AtomLen gives the number of code units    *)
(* an atom stands for.  A missing (undefined) string field and the empty   *)
(* string are both the empty sequence: the code only tests such fields     *)
(* for falsiness.                                                          *)
(***************************************************************************)
EXTENDS Integers, Sequences, FiniteSets, TLC

(***************************************************************************)
(* Characters                                                              *)
(***************************************************************************)
LowerSeq ==
  << "a","b","c","d","e","f","g","h","i","j","k","l","m",
     "n","o","p","q","r","s","t","u","v","w","x","y","z" >>

UpperSeq ==
  << "A","B","C","D","E","F","G","H","I","J","K","L","M",
     "N","O","P","Q","R","S","T","U","V","W","X","Y","Z" >>

Digits == {"0","1","2","3","4","5","6","7","8","9"}

Range(s) == { s[i] : i \in DOMAIN s }

\* String.prototype.toLowerCase on one code unit (the /i flag of the regexes).
ToLowerChar(c) ==
  IF \E i \in DOMAIN UpperSeq : UpperSeq[i] = c
    THEN LowerSeq[CHOOSE i \in DOMAIN UpperSeq : UpperSeq[i] = c]
    ELSE c

ToLower(s) == [ i \in DOMAIN s |-> ToLowerChar(s[i]) ]

\* The character class [a-zA-Z0-9._-] of the sanitizing regex.
AllowedChars == Range(LowerSeq) \cup Range(UpperSeq) \cup Digits \cup {".", "_", "-"}

\* JavaScript white space, as String.prototype.trim removes it.
WhiteSpace == {" ", "\n", "\t", "\r"}

(***************************************************************************)
(* Generic string operations                                               *)
(***************************************************************************)
\* s.split(sep) for a one-atom separator: the sequence of pieces (never empty).
RECURSIVE SplitOn(_, _)
SplitOn(s, sep) ==
  IF \A i \in DOMAIN s : s[i] # sep
    THEN << s >>
    ELSE LET k == CHOOSE i \in DOMAIN s :
                     /\ s[i] = sep
                     /\ \A j \in 1..(i-1) : s[j] # sep
         IN  << SubSeq(s, 1, k-1) >> \o SplitOn(SubSeq(s, k+1, Len(s)), sep)

\* pieces.join(sep)
RECURSIVE JoinWith(_, _)
JoinWith(pieces, sep) ==
  IF Len(pieces) = 0 THEN << >>
  ELSE IF Len(pieces) = 1 THEN pieces[1]
  ELSE pieces[1] \o << sep >> \o JoinWith(Tail(pieces), sep)

\* String.prototype.trim
RECURSIVE TrimLeft(_)
TrimLeft(s) ==
  IF s # << >> /\ s[1] \in WhiteSpace THEN TrimLeft(Tail(s)) ELSE s

RECURSIVE TrimRight(_)
TrimRight(s) ==
  IF s # << >> /\ s[Len(s)] \in WhiteSpace
    THEN TrimRight(SubSeq(s, 1, Len(s)-1))
    ELSE s

Trim(s) == TrimRight(TrimLeft(s))

(***************************************************************************)
(* File name derivation (MESSAGE_RECEIVED, lines 655-669)                  *)
(***************************************************************************)
\* The extensions of /\.(jpg|jpeg|png|gif|webp|bmp)$/i
ImageExts ==
  { <<"j","p","g">>, <<"j","p","e","g">>, <<"p","n","g">>,
    <<"g","i","f">>, <<"w","e","b","p">>, <<"b","m","p">> }

\* s.match(/\.(jpg|jpeg|png|gif|webp|bmp)$/i)
HasImageExt(s) ==
  \E e \in ImageExts :
    /\ Len(s) >= Len(e) + 1
    /\ s[Len(s) - Len(e)] = "."
    /\ ToLower(SubSeq(s, Len(s) - Len(e) + 1, Len(s))) = e

\* The origins a URL of the model starts with: one atom each, standing for
\* "scheme://host".  A string that does not start with one is not a URL.
Origins == {"https://x", "https://cdn"}

\* new URL(u) does not throw.
ValidURL(u) == u # << >> /\ u[1] \in Origins

\* The part of the URL after the origin, up to the query or the fragment.
RawPath(u) ==
  LET rest == Tail(u)
      stop == { i \in DOMAIN rest : rest[i] \in {"?", "#"} }
      cut  == IF stop = {} THEN Len(rest)
              ELSE (CHOOSE i \in stop : \A j \in stop : i <= j) - 1
  IN  SubSeq(rest, 1, cut)

\* The URL parser percent-encodes the code units of the path percent-encode
\* set and reads a backslash as a slash.
RECURSIVE EncodePath(_)
EncodePath(s) ==
  IF s = << >> THEN << >>
  ELSE (CASE s[1] = " "  -> <<"%","2","0">>
          [] s[1] = "\"" -> <<"%","2","2">>
          [] s[1] = "<"  -> <<"%","3","C">>
          [] s[1] = ">"  -> <<"%","3","E">>
          [] s[1] = "\\" -> <<"/">>
          [] OTHER       -> << s[1] >>) \o EncodePath(Tail(s))

\* The URL parser drops "." segments and lets ".." remove the segment
\* before it; a dot segment in last place leaves an empty last segment.
RECURSIVE DotSegments(_, _)
DotSegments(segs, acc) ==
  IF segs = << >> THEN acc
  ELSE LET sg   == segs[1]
           last == Len(segs) = 1
           up   == IF acc = << >> THEN << >> ELSE SubSeq(acc, 1, Len(acc)-1)
       IN  IF sg = <<".",".">>
             THEN DotSegments(Tail(segs), IF last THEN up \o << << >> >> ELSE up)
           ELSE IF sg = <<".">>
             THEN DotSegments(Tail(segs), IF last THEN acc \o << << >> >> ELSE acc)
           ELSE DotSegments(Tail(segs), Append(acc, sg))

\* new URL(u).pathname, for a valid u: always starts with a slash.
URLPathname(u) ==
  LET p    == EncodePath(RawPath(u))
      body == IF p # << >> /\ p[1] = "/" THEN Tail(p) ELSE p
  IN  << "/" >> \o JoinWith(DotSegments(SplitOn(body, "/"), << >>), "/")

\* urlPath.split('/').pop()
LastSegment(p) == LET parts == SplitOn(p, "/") IN parts[Len(parts)]

ImagePrefix == <<"i","m","a","g","e","_">>

\* Lines 656-660: title, else name, else the last URL segment, else image_<id>.
\* The URL is parsed only when title and name are both empty.
UrlParseThrows(att) ==
  att.title = << >> /\ att.name = << >> /\ ~ValidURL(att.url)

\* The identifier part of the fallback name `image_${attachment.id}`.
FallbackName(att) == ImagePrefix \o att.id

\* BaseName with the two fields in the other order: name, else title.
BaseNameNameFirst(att) ==
  IF att.name # << >> THEN att.name
  ELSE IF att.title # << >> THEN att.title
  ELSE LET seg == LastSegment(URLPathname(att.url))
       IN  IF seg # << >> THEN seg ELSE FallbackName(att)

BaseName(att) ==
  IF att.title # << >> THEN att.title
  ELSE IF att.name # << >> THEN att.name
  ELSE LET seg == LastSegment(URLPathname(att.url))
       IN  IF seg # << >> THEN seg ELSE FallbackName(att)

\* attachment.contentType?.split('/')[1] || 'png'
ExtOf(ct) ==
  LET parts == SplitOn(ct, "/")
  IN  IF Len(parts) >= 2 /\ parts[2] # << >> THEN parts[2] ELSE <<"p","n","g">>

\* Lines 663-666
EnsureExtension(fileName, att) ==
  IF HasImageExt(fileName) THEN fileName
  ELSE fileName \o << "." >> \o ExtOf(att.contentType)

\* Sanitize with the replacement left out: the name is kept as derived.
SanitizeNothing(s) == s

\* fileName.replace(/[^a-zA-Z0-9._-]/g, '_')
Sanitize(s) == [ i \in DOMAIN s |-> IF s[i] \in AllowedChars THEN s[i] ELSE "_" ]

FileNameOf(att) == Sanitize(EnsureExtension(BaseName(att), att))

\* path.join(process.cwd(), 'temp_images'), as a sequence of path segments.
TempDir == << <<"<cwd>">>, <<"t","e","m","p","_","i","m","a","g","e","s">> >>

\* path.join(dir, name): the segments of name are appended, empty and "."
\* segments dropped, ".." removing the segment before it.
RECURSIVE JoinSegments(_, _)
JoinSegments(dir, segs) ==
  IF segs = << >> THEN dir
  ELSE LET sg == segs[1]
       IN  IF sg = << >> \/ sg = <<".">> THEN JoinSegments(dir, Tail(segs))
           ELSE IF sg = <<".",".">>
             THEN JoinSegments(IF dir = << >> THEN dir
                               ELSE SubSeq(dir, 1, Len(dir)-1), Tail(segs))
           ELSE JoinSegments(Append(dir, sg), Tail(segs))

PathJoin(dir, name) == JoinSegments(dir, SplitOn(name, "/"))

\* Line 669
ImagePathOf(att) == PathJoin(TempDir, FileNameOf(att))

(***************************************************************************)
(* Lengths                                                                 *)
(***************************************************************************)
\* The atoms that stand for more than one code unit, with their lengths.
\* "<runN>" is a run of N letters with no white space and no punctuation.
AtomWidth ==
  [ a \in { "<microscope>", "**Chronos Analysis Results**", "**Q", "**A",
            ":**", "undefined", "DISCORD_RESULTS_START", "DISCORD_RESULTS_END",
            "QUESTION_", "ANSWER_", ":::", "<run700>", "<run1200>", "<run2500>",
            "<warning>", "<cross>", "Failed to process image",
            "An error occurred while processing the image" } |->
      CASE a = "<microscope>"                 -> 2
        [] a = "**Chronos Analysis Results**" -> 28
        [] a = "**Q"                          -> 3
        [] a = "**A"                          -> 3
        [] a = ":**"                          -> 3
        [] a = "undefined"                    -> 9
        [] a = "DISCORD_RESULTS_START"        -> 21
        [] a = "DISCORD_RESULTS_END"          -> 19
        [] a = "QUESTION_"                    -> 9
        [] a = "ANSWER_"                      -> 7
        [] a = ":::"                          -> 3
        [] a = "<run700>"                     -> 700
        [] a = "<run1200>"                    -> 1200
        [] a = "<run2500>"                    -> 2500
        [] a = "<warning>"                    -> 2
        [] a = "<cross>"                      -> 1
        [] a = "Failed to process image"      -> 23
        [] a = "An error occurred while processing the image" -> 44 ]

AtomLen(a) == IF a \in DOMAIN AtomWidth THEN AtomWidth[a] ELSE 1

\* String.prototype.length
RECURSIVE StrLen(_)
StrLen(s) == IF s = << >> THEN 0 ELSE AtomLen(s[1]) + StrLen(Tail(s))

(***************************************************************************)
(* parseChronosResults (lines 443-479)                                     *)
(***************************************************************************)
startMarker == "DISCORD_RESULTS_START"
endMarker   == "DISCORD_RESULTS_END"

\* stdout.indexOf(marker), as an atom position; 0 stands for -1.
IndexOf(s, a) ==
  IF \E i \in DOMAIN s : s[i] = a
    THEN CHOOSE i \in DOMAIN s : s[i] = a /\ \A j \in 1..(i-1) : s[j] # a
    ELSE 0

\* The value the pipeline promise resolves with: null, or the two sequences.
NullResults == [ null |-> TRUE, questions |-> << >>, answers |-> << >> ]

\* stdout.substring(startIndex + startMarker.length, endIndex); substring
\* swaps its arguments when the first is the larger one.
ResultsBlock(stdout) ==
  LET si == IndexOf(stdout, startMarker)
      ei == IndexOf(stdout, endMarker)
  IN  IF ei > si THEN SubSeq(stdout, si + 1, ei - 1)
                 ELSE SubSeq(stdout, ei, si)

\* The filter of line 458.
KeptLine(line) ==
  /\ Trim(line) # << >>
  /\ line # <<"-","-","-">>
  /\ ~(line # << >> /\ line[1] = "=")

\* line.split(':::')[1]?.trim(), for a line that includes ':::'
FieldText(line) == Trim(SplitOn(line, ":::")[2])

IsQuestionLine(line) == "QUESTION_" \in Range(line) /\ ":::" \in Range(line)
IsAnswerLine(line) ==
  ~IsQuestionLine(line) /\ "ANSWER_" \in Range(line) /\ ":::" \in Range(line)

\* The loop of lines 463-471 over the kept lines.
RECURSIVE CollectLines(_, _, _)
CollectLines(lines, questions, answers) ==
  IF lines = << >>
    THEN [ null |-> FALSE, questions |-> questions, answers |-> answers ]
  ELSE LET line == lines[1]
           txt  == FieldText(line)
       IN  IF ~KeptLine(line) THEN CollectLines(Tail(lines), questions, answers)
           ELSE IF IsQuestionLine(line)
             THEN CollectLines(Tail(lines),
                    IF txt # << >> THEN Append(questions, txt) ELSE questions,
                    answers)
           ELSE IF IsAnswerLine(line)
             THEN CollectLines(Tail(lines), questions,
                    IF txt # << >> THEN Append(answers, txt) ELSE answers)
           ELSE CollectLines(Tail(lines), questions, answers)

parseChronosResults(stdout) ==
  IF IndexOf(stdout, startMarker) = 0 \/ IndexOf(stdout, endMarker) = 0
    THEN NullResults
    ELSE CollectLines(SplitOn(ResultsBlock(stdout), "\n"), << >>, << >>)

(***************************************************************************)
(* The report (lines 704-710)                                              *)
(***************************************************************************)
DigitSeq == << "0","1","2","3","4","5","6","7","8","9" >>

\* The decimal digits of a number, as a template literal prints it.
RECURSIVE Decimal(_)
Decimal(n) ==
  IF n < 10 THEN << DigitSeq[n + 1] >>
  ELSE Decimal(n \div 10) \o << DigitSeq[(n % 10) + 1] >>

ReportHeader ==
  << "<microscope>", " ", "**Chronos Analysis Results**", "\n", "\n" >>

\* `${results.answers[i]}`: an index past the end prints "undefined".
AnswerText(results, i) ==
  IF i <= Len(results.answers) THEN results.answers[i] ELSE << "undefined" >>

ReportEntry(results, i) ==
     << "**Q" >> \o Decimal(i) \o << ":**", " " >> \o results.questions[i]
  \o << "\n", "\n" >>
  \o << "**A" >> \o Decimal(i) \o << ":**", " " >> \o AnswerText(results, i)
  \o << "\n", "\n" >>
  \o << "-", "-", "-", "\n", "\n" >>

RECURSIVE ReportEntries(_, _)
ReportEntries(results, i) ==
  IF i > Len(results.questions) THEN << >>
  ELSE ReportEntry(results, i) \o ReportEntries(results, i + 1)

responseText(results) == ReportHeader \o ReportEntries(results, 1)

(***************************************************************************)
(* splitDiscordMessage (lines 484-526)                                     *)
(***************************************************************************)
\* The default of the maxLength parameter.
DefaultMaxLength == 1900

SentenceEnd == {".", "!", "?"}

\* line.match(/[^.!?]+[.!?]+/g): the matches from left to right, none when
\* the regex matches nowhere.
RECURSIVE MatchSentences(_)
MatchSentences(s) ==
  IF s = << >> THEN << >>
  ELSE IF s[1] \in SentenceEnd THEN MatchSentences(Tail(s))
  ELSE LET ends == { i \in DOMAIN s : s[i] \in SentenceEnd }
       IN  IF ends = {} THEN << >>
           ELSE LET p == CHOOSE i \in ends : \A j \in ends : i <= j
                    q == CHOOSE i \in p..Len(s) :
                           /\ \A j \in p..i : s[j] \in SentenceEnd
                           /\ (i = Len(s) \/ s[i+1] \notin SentenceEnd)
                IN  << SubSeq(s, 1, q) >>
                      \o MatchSentences(SubSeq(s, q + 1, Len(s)))

\* line.match(...) || [line]
Sentences(line) ==
  IF MatchSentences(line) = << >> THEN << line >> ELSE MatchSentences(line)

\* Lines 503-512, from the state (chunks, currentChunk).
RECURSIVE SentenceLoop(_, _, _, _)
SentenceLoop(sentences, chunks, currentChunk, maxLength) ==
  IF sentences = << >> THEN [ chunks |-> chunks, currentChunk |-> currentChunk ]
  ELSE LET sentence == sentences[1]
       IN  IF StrLen(currentChunk \o sentence) > maxLength
             THEN SentenceLoop(Tail(sentences),
                    IF currentChunk # << >>
                      THEN Append(chunks, Trim(currentChunk)) ELSE chunks,
                    sentence, maxLength)
             ELSE SentenceLoop(Tail(sentences), chunks,
                    currentChunk \o sentence, maxLength)

\* Lines 493-519, from the state (chunks, currentChunk).
RECURSIVE LineLoop(_, _, _, _)
LineLoop(lines, chunks, currentChunk, maxLength) ==
  IF lines = << >> THEN [ chunks |-> chunks, currentChunk |-> currentChunk ]
  ELSE LET line == lines[1]
       IN  IF StrLen(currentChunk \o line \o << "\n" >>) > maxLength
             THEN LET flushed == IF currentChunk # << >>
                                   THEN Append(chunks, Trim(currentChunk))
                                   ELSE chunks
                  IN  IF StrLen(line) > maxLength
                        THEN LET st == SentenceLoop(Sentences(line), flushed,
                                                    << >>, maxLength)
                             IN  LineLoop(Tail(lines), st.chunks,
                                          st.currentChunk, maxLength)
                        ELSE LineLoop(Tail(lines), flushed,
                                      line \o << "\n" >>, maxLength)
             ELSE LineLoop(Tail(lines), chunks,
                           currentChunk \o line \o << "\n" >>, maxLength)

\* splitDiscordMessage without the trim of the last chunk.
splitDiscordMessageUntrimmed(text, maxLength) ==
  IF StrLen(text) <= maxLength THEN << text >>
  ELSE LET st == LineLoop(SplitOn(text, "\n"), << >>, << >>, maxLength)
       IN  IF st.currentChunk # << >>
             THEN Append(st.chunks, st.currentChunk)
             ELSE st.chunks

\* The first code units of s, as many as fit in n.
RECURSIVE HardCut(_, _)
HardCut(s, n) ==
  IF s = << >> \/ AtomLen(s[1]) > n THEN << >>
  ELSE << s[1] >> \o HardCut(Tail(s), n - AtomLen(s[1]))

\* splitDiscordMessage with every chunk cut hard at maxLength.
splitDiscordMessageTruncating(text, maxLength) ==
  IF StrLen(text) <= maxLength THEN << text >>
  ELSE LET st  == LineLoop(SplitOn(text, "\n"), << >>, << >>, maxLength)
           all == IF st.currentChunk # << >>
                    THEN Append(st.chunks, Trim(st.currentChunk))
                    ELSE st.chunks
       IN  [ n \in DOMAIN all |-> HardCut(all[n], maxLength) ]

splitDiscordMessage(text, maxLength) ==
  IF StrLen(text) <= maxLength THEN << text >>
  ELSE LET st == LineLoop(SplitOn(text, "\n"), << >>, << >>, maxLength)
       IN  IF st.currentChunk # << >>
             THEN Append(st.chunks, Trim(st.currentChunk))
             ELSE st.chunks

(***************************************************************************)
(* Attachments and messages                                                *)
(***************************************************************************)
\* Lines 630-635: the filter that selects the image attachments.
IsPrefix(pre, s) == Len(pre) <= Len(s) /\ SubSeq(s, 1, Len(pre)) = pre

IsImageAttachment(att) ==
  \/ att.source = "Image"
  \/ IsPrefix(<<"i","m","a","g","e","/">>, att.contentType)
  \/ HasImageExt(att.url)

imageAttachments(m) == SelectSeq(m.attachments, IsImageAttachment)

PngType == <<"i","m","a","g","e","/","p","n","g">>

\* A titled image with a good URL.
AttTitled ==
  [ id |-> <<"1">>, title |-> <<"a",".","p","n","g">>, name |-> << >>,
    url |-> <<"https://cdn","/","a","/","1">>, contentType |-> PngType,
    source |-> "Image" ]

\* An image (by its source tag) that has no URL.
AttNoUrl ==
  [ id |-> <<"2">>, title |-> << >>, name |-> << >>, url |-> << >>,
    contentType |-> << >>, source |-> "Image" ]

\* An image (by its content type) whose URL does not parse, without a title.
AttBadUrl ==
  [ id |-> <<"3">>, title |-> << >>, name |-> << >>, url |-> <<"n","o">>,
    contentType |-> PngType, source |-> "" ]

\* An image (by its URL) named after the last segment of its URL.
AttUrlNamed ==
  [ id |-> <<"4">>, title |-> << >>, name |-> << >>,
    url |-> <<"https://x","/","y","/","p","i","c",".","J","P","G">>,
    contentType |-> << >>, source |-> "" ]

\* Not an image: the filter drops it.
AttDocument ==
  [ id |-> <<"5">>, title |-> <<"d",".","p","d","f">>, name |-> << >>,
    url |-> <<"https://x","/","d",".","p","d","f">>,
    contentType |-> <<"a","/","p","d","f">>, source |-> "" ]

\* A second titled image: another identifier, the title of AttTitled.
AttSameTitle ==
  [ id |-> <<"6">>, title |-> <<"a",".","p","n","g">>, name |-> << >>,
    url |-> <<"https://cdn","/","b","/","2">>, contentType |-> PngType,
    source |-> "Image" ]

AttachmentKinds == { AttTitled, AttNoUrl, AttBadUrl, AttUrlNamed, AttDocument }

\* The longest attachment list of a message.
MaxAttachments == 2

RECURSIVE SeqsUpTo(_, _)
SeqsUpTo(S, n) ==
  IF n = 0 THEN { << >> }
  ELSE LET shorter == SeqsUpTo(S, n - 1)
       IN  shorter \cup { Append(q, x) : q \in { t \in shorter : Len(t) = n - 1 }, x \in S }

Messages ==
  [ attachments : SeqsUpTo(AttachmentKinds, MaxAttachments), hasCallback : BOOLEAN ]

\* The messages of the runs with two handlers at work.
ConcurrentMessages ==
  [ attachments : { << AttTitled >>, << AttSameTitle >>, << AttUrlNamed >> },
    hasCallback : {TRUE} ]

NoMessage == [ attachments |-> << >>, hasCallback |-> FALSE ]

Handlers == {"h1", "h2"}

(***************************************************************************)
(* What the pipeline process may print                                     *)
(***************************************************************************)
Border == <<"=","=","=","\n">>

OutNoMarkers == <<"<run700>", "\n">>

OutEmptyBlock ==
  Border \o << startMarker, "\n" >> \o Border \o Border \o << endMarker, "\n" >>

OutOne ==
     <<"l","o","g","\n">> \o Border \o << startMarker, "\n" >> \o Border
  \o << "QUESTION_", "1", ":::", "I","s"," ","X","?", "\n" >>
  \o << "ANSWER_", "1", ":::", "Y","e","s",".", "\n" >>
  \o << "-","-","-", "\n" >> \o Border \o << endMarker, "\n" >> \o Border

OutLong ==
     Border \o << startMarker, "\n" >> \o Border
  \o << "QUESTION_", "1", ":::", "<run700>", "?", "\n" >>
  \o << "ANSWER_", "1", ":::", "<run1200>", ".", "\n" >>
  \o << "-","-","-", "\n" >>
  \o << "QUESTION_", "2", ":::", "<run700>", "?", "\n" >>
  \o << "ANSWER_", "2", ":::", "<run1200>", ".", " ", "<run700>", ".", "\n" >>
  \o << "-","-","-", "\n" >> \o Border \o << endMarker, "\n" >> \o Border

\* Two questions and one answer; the first question is one long word.
OutUneven ==
     Border \o << startMarker, "\n" >> \o Border
  \o << "QUESTION_", "1", ":::", "<run2500>", "\n" >>
  \o << "ANSWER_", "1", ":::", "Y","e","s",".", "\n" >>
  \o << "-","-","-", "\n" >>
  \o << "QUESTION_", "2", ":::", "W","h","y","?", "\n" >>
  \o << "-","-","-", "\n" >> \o Border \o << endMarker, "\n" >> \o Border

StdoutSamples == { OutNoMarkers, OutEmptyBlock, OutOne, OutLong, OutUneven }

\* The code of the 'close' event: a number, or null after a signal.
ExitCodes == {"0", "1", "null"}

\* The two notices of lines 694 and 739.
FailedNotice == << "<warning>", " ", "Failed to process image" >>
ErrorNotice  == << "<cross>", " ", "An error occurred while processing the image" >>

(***************************************************************************)
(* State                                                                   *)
(***************************************************************************)
VARIABLES
  msg,      \* handler -> the message it was invoked with
  pc,       \* handler -> where the handler is suspended
  idx,      \* handler -> position of the for loop in imageAttachments
  cur,      \* handler -> the locals of the current iteration
  files,    \* the files of temp_images: path, and who wrote it last
  procs,    \* the pipeline processes that are running
  calls,    \* handler -> the callback calls it issued, in order (history)
  pending,  \* handler -> the callback calls issued and not yet settled
  hist,     \* handler -> per image attachment, what happened to it (history)
  nameIn,   \* file name derivation: the two attachments given
  nameOut,  \* file name derivation: the outcome for each
  arg,      \* a function on its own: the arguments it is called with
  ret       \* a function on its own: what the call produced, once made

vars == << msg, pc, idx, cur, files, procs, calls, pending, hist, nameIn, nameOut, arg, ret >>

handlerVars == << msg, pc, idx, cur, files, procs, calls, pending, hist >>

NoLocals == [ imagePath |-> << >>, chunks |-> << >>, k |-> 0 ]

NoHistory ==
  [ visited |-> FALSE, fate |-> "none", wrote |-> FALSE, path |-> << >>,
    unlinkTried |-> FALSE, spawned |-> 0, results |-> NullResults,
    report |-> << >> ]

Atts(h) == imageAttachments(msg[h])

\* The handlers of `invoked` are about to run; the others have returned.
InitHandlers(ms, invoked) ==
  /\ msg = ms
  /\ pc = [ h \in Handlers |-> IF h \in invoked THEN "start" ELSE "done" ]
  /\ idx = [ h \in Handlers |-> 1 ]
  /\ cur = [ h \in Handlers |-> NoLocals ]
  /\ files = {}
  /\ procs = {}
  /\ calls = [ h \in Handlers |-> << >> ]
  /\ pending = [ h \in Handlers |-> 0 ]
  /\ hist = [ h \in Handlers |->
              [ i \in 1..Len(imageAttachments(ms[h])) |-> NoHistory ] ]

NoNames == [ a |-> AttTitled, b |-> AttTitled ]

\* No function is called on its own.
NoCall ==
  /\ arg = << >>
  /\ ret = << >>

\* One message is handled; the other handler is not invoked.
Init ==
  /\ \E m \in Messages :
       InitHandlers([ h \in Handlers |-> IF h = "h1" THEN m ELSE NoMessage ],
                    {"h1"})
  /\ nameIn = NoNames
  /\ nameOut = << >>
  /\ NoCall

\* Two messages are handled concurrently.
InitConcurrent ==
  /\ \E ms \in [ Handlers -> ConcurrentMessages ] : InitHandlers(ms, Handlers)
  /\ nameIn = NoNames
  /\ nameOut = << >>
  /\ NoCall

(***************************************************************************)
(* The pieces of the MESSAGE_RECEIVED handler                              *)
(***************************************************************************)
Att(h) == Atts(h)[idx[h]]

Mark(h, field, value) == [ hist EXCEPT ![h][idx[h]][field] = value ]

\* WriteFile that leaves a file of another handler as it is.
WriteFileExclusive(fs, path, h, i) ==
  IF \E f \in fs : f.path = path /\ f.owner # h THEN fs
  ELSE { f \in fs : f.path # path } \cup { [ path |-> path, owner |-> h, att |-> i ] }

\* fs.writeFileSync(imagePath, buffer): creates the file or overwrites it.
WriteFile(fs, path, h, i) ==
  { f \in fs : f.path # path } \cup { [ path |-> path, owner |-> h, att |-> i ] }

\* fs.unlinkSync(imagePath): removes the file, or throws (no such file, no
\* permission) and leaves the directory as it is.
Unlink(fs, path, ok) ==
  IF ok THEN { f \in fs : f.path # path } ELSE fs

\* SpawnProc handing every image to the process of the first attachment.
SpawnProcShared(ps, h, i, path) ==
  ps \cup { [ owner |-> h, att |-> 1, path |-> path ] }

\* SpawnProc behind a lock: the process starts only when no other runs.
SpawnProcSerialized(ps, h, i, path) ==
  IF ps = {} THEN { [ owner |-> h, att |-> i, path |-> path ] } ELSE ps

\* spawn(pythonCmd, args, ...): runChronosPipeline starts a child process at
\* once; nothing is waited for and nothing is locked.
SpawnProc(ps, h, i, path) ==
  ps \cup { [ owner |-> h, att |-> i, path |-> path ] }

\* ProcsAfterClose for a promise resolved before the process has ended.
ProcsAfterEarlyResolve(ps, p) == ps

\* The 'close' event that resolves the promise: the process has ended.
ProcsAfterClose(ps, p) == ps \ {p}

\* ChunkToSend walking the chunks from the last one to the first.
ChunkToSendReversed(chunks, k) == chunks[Len(chunks) + 1 - k]

\* for (const chunk of messageChunks): the chunk of the k-th turn.
ChunkToSend(chunks, k) == chunks[k]

\* HasMoreChunks stopping one turn early.
HasMoreChunksOffByOne(chunks, k) == k < Len(chunks) - 1

\* for (const chunk of messageChunks): whether a turn follows the k-th.
HasMoreChunks(chunks, k) == k < Len(chunks)

\* The end of one iteration of the for loop (also `continue`).
Continue(h, callsNow, pendingNow) ==
  /\ pc' = [ pc EXCEPT ![h] = "loop" ]
  /\ idx' = [ idx EXCEPT ![h] = @ + 1 ]
  /\ cur' = [ cur EXCEPT ![h] = NoLocals ]
  /\ calls' = callsNow
  /\ pending' = pendingNow

\* await callback({ text, source }): the call is issued and the handler waits.
CallCallback(h, callsNow, pendingNow, kind, text, waitAt, locals) ==
  /\ calls' = [ callsNow EXCEPT ![h] =
                  Append(@, [ att |-> idx[h], kind |-> kind, text |-> text,
                              outcome |-> "pending" ]) ]
  /\ pending' = [ pendingNow EXCEPT ![h] = @ + 1 ]
  /\ pc' = [ pc EXCEPT ![h] = waitAt ]
  /\ cur' = [ cur EXCEPT ![h] = locals ]
  /\ UNCHANGED idx

\* Catch without the test of `if (callback)`.
CatchUnguarded(h, callsNow, pendingNow) ==
  CallCallback(h, callsNow, pendingNow, "error", ErrorNotice, "cbError", cur[h])

\* Lines 735-743: the catch block of the iteration.
Catch(h, callsNow, pendingNow) ==
  IF msg[h].hasCallback
    THEN CallCallback(h, callsNow, pendingNow, "error", ErrorNotice, "cbError", cur[h])
    ELSE Continue(h, callsNow, pendingNow)

\* A callback call of handler h settles: the last call of its log.
Settle(h, outcome) ==
  [ calls EXCEPT ![h][Len(calls[h])].outcome = outcome ]

Settled(h) == [ pending EXCEPT ![h] = @ - 1 ]

(***************************************************************************)
(* The actions of the MESSAGE_RECEIVED handler.  Each runs from one await  *)
(* to the next: JavaScript runs the code in between without interruption.  *)
(***************************************************************************)
\* Lines 620-639: the handler is invoked.
Start(h) ==
  /\ pc[h] = "start"
  /\ pc' = [ pc EXCEPT ![h] =
               IF Len(msg[h].attachments) > 0 /\ Len(Atts(h)) > 0
                 THEN "loop" ELSE "done" ]
  /\ UNCHANGED << msg, idx, cur, files, procs, calls, pending, hist,
                  nameIn, nameOut, arg, ret >>

\* Lines 641-673: the next attachment, up to the call of fetch.  dirOk: the
\* directory exists or fs.mkdirSync creates it; otherwise mkdirSync throws.
Iterate(h, dirOk) ==
  /\ pc[h] = "loop"
  /\ idx[h] <= Len(Atts(h))
  /\ LET seen == Mark(h, "visited", TRUE)
     IN  IF ~dirOk
           THEN /\ hist' = [ seen EXCEPT ![h][idx[h]].fate = "mkdir" ]
                /\ Catch(h, calls, pending)
         ELSE IF Att(h).url = << >>
           THEN /\ hist' = [ seen EXCEPT ![h][idx[h]].fate = "nourl" ]
                /\ Continue(h, calls, pending)
         ELSE IF UrlParseThrows(Att(h))
           THEN /\ hist' = [ seen EXCEPT ![h][idx[h]].fate = "acquire" ]
                /\ Catch(h, calls, pending)
         ELSE /\ hist' = seen
              /\ pc' = [ pc EXCEPT ![h] = "fetch" ]
              /\ cur' = [ cur EXCEPT ![h].imagePath = ImagePathOf(Att(h)) ]
              /\ UNCHANGED << idx, calls, pending >>
  /\ UNCHANGED << msg, files, procs, nameIn, nameOut, arg, ret >>

\* The loop is over: the handler returns.
Finish(h) ==
  /\ pc[h] = "loop"
  /\ idx[h] > Len(Atts(h))
  /\ pc' = [ pc EXCEPT ![h] = "done" ]
  /\ UNCHANGED << msg, idx, cur, files, procs, calls, pending, hist,
                  nameIn, nameOut, arg, ret >>

\* What fetch(imageUrl) may do: it rejects for a URL that does not parse.
FetchOutcomes(att) ==
  IF ValidURL(att.url) THEN {"ok", "notOk", "rejected"} ELSE {"rejected"}

\* Lines 673-676: fetch settles.
FetchSettles(h, outcome) ==
  /\ pc[h] = "fetch"
  /\ outcome \in FetchOutcomes(Att(h))
  /\ IF outcome = "ok"
       THEN /\ pc' = [ pc EXCEPT ![h] = "body" ]
            /\ UNCHANGED << idx, cur, calls, pending, hist >>
       ELSE /\ hist' = Mark(h, "fate", "acquire")
            /\ Catch(h, calls, pending)
  /\ UNCHANGED << msg, files, procs, nameIn, nameOut, arg, ret >>

\* Lines 678-688: the body arrives, the file is written and the pipeline
\* process is started.
BodySettles(h, outcome) ==
  /\ pc[h] = "body"
  /\ outcome \in {"rejected", "writeThrows", "written"}
  /\ IF outcome = "written"
       THEN /\ files' = WriteFile(files, cur[h].imagePath, h, idx[h])
            /\ procs' = SpawnProc(procs, h, idx[h], cur[h].imagePath)
            /\ hist' = [ hist EXCEPT ![h][idx[h]].wrote = TRUE,
                                     ![h][idx[h]].path = cur[h].imagePath,
                                     ![h][idx[h]].spawned = @ + 1 ]
            /\ pc' = [ pc EXCEPT ![h] = "pipeline" ]
            /\ UNCHANGED << idx, cur, calls, pending >>
       ELSE /\ hist' = Mark(h, "fate", "acquire")
            /\ Catch(h, calls, pending)
            /\ UNCHANGED << files, procs >>
  /\ UNCHANGED << msg, nameIn, nameOut, arg, ret >>

\* Lines 727-733 and the end of the iteration.
Cleanup(h, unlinkOk, callsNow, pendingNow, histNow) ==
  /\ files' = Unlink(files, cur[h].imagePath,
                     unlinkOk /\ \E f \in files : f.path = cur[h].imagePath)
  /\ hist' = [ histNow EXCEPT ![h][idx[h]].unlinkTried = TRUE ]
  /\ Continue(h, callsNow, pendingNow)

\* Lines 690-725, once the pipeline promise has resolved with `results`.
AfterPipeline(h, results, failure, unlinkOk) ==
  IF results.null \/ Len(results.questions) = 0
    THEN /\ hist' = [ hist EXCEPT ![h][idx[h]].fate = failure,
                                  ![h][idx[h]].results = results ]
         /\ UNCHANGED files
         /\ IF msg[h].hasCallback
              THEN CallCallback(h, calls, pending, "failed", FailedNotice,
                                "cbFailed", cur[h])
              ELSE Continue(h, calls, pending)
    ELSE LET messageChunks == splitDiscordMessage(responseText(results),
                                                  DefaultMaxLength)
             told == [ hist EXCEPT ![h][idx[h]].fate = "report",
                                   ![h][idx[h]].results = results,
                                   ![h][idx[h]].report = messageChunks ]
         IN  IF msg[h].hasCallback /\ messageChunks # << >>
               THEN /\ hist' = told
                    /\ UNCHANGED files
                    /\ CallCallback(h, calls, pending, "chunk",
                         ChunkToSend(messageChunks, 1), "cbChunk",
                         [ cur[h] EXCEPT !.chunks = messageChunks, !.k = 1 ])
               ELSE Cleanup(h, unlinkOk, calls, pending, told)

\* runChronosPipeline, lines 433-436: the process could not be launched.
ProcessError(h) ==
  /\ pc[h] = "pipeline"
  /\ \E p \in procs :
       /\ p.owner = h
       /\ procs' = procs \ {p}
  /\ AfterPipeline(h, NullResults, "invoke", TRUE)
  /\ UNCHANGED << msg, nameIn, nameOut, arg, ret >>

\* runChronosPipeline, lines 418-431: the process closes with a code.
ProcessClose(h, code, stdout, unlinkOk) ==
  /\ pc[h] = "pipeline"
  /\ \E p \in procs :
       /\ p.owner = h
       /\ procs' = ProcsAfterClose(procs, p)
  /\ LET results == IF code # "0" THEN NullResults
                    ELSE parseChronosResults(stdout)
         failure == IF code # "0" THEN "invoke"
                    ELSE IF results.null THEN "extract" ELSE "empty"
     IN  AfterPipeline(h, results, failure, unlinkOk)
  /\ UNCHANGED << msg, nameIn, nameOut, arg, ret >>

\* Lines 693-698: the 'failed to process' notice settles.
FailedNoticeSettles(h, outcome) ==
  /\ pc[h] = "cbFailed"
  /\ outcome \in {"ok", "threw"}
  /\ IF outcome = "ok"
       THEN Continue(h, Settle(h, outcome), Settled(h))
       ELSE Catch(h, Settle(h, outcome), Settled(h))
  /\ UNCHANGED << msg, files, procs, hist, nameIn, nameOut, arg, ret >>

\* Lines 719-733: the call for a chunk settles.
ChunkSettles(h, outcome, unlinkOk) ==
  /\ pc[h] = "cbChunk"
  /\ outcome \in {"ok", "threw"}
  /\ IF outcome = "threw"
       THEN /\ Catch(h, Settle(h, outcome), Settled(h))
            /\ UNCHANGED << files, hist >>
       ELSE IF HasMoreChunks(cur[h].chunks, cur[h].k)
         THEN /\ CallCallback(h, Settle(h, outcome), Settled(h), "chunk",
                   ChunkToSend(cur[h].chunks, cur[h].k + 1), "cbChunk",
                   [ cur[h] EXCEPT !.k = @ + 1 ])
              /\ UNCHANGED << files, hist >>
         ELSE Cleanup(h, unlinkOk, Settle(h, outcome), Settled(h), hist)
  /\ UNCHANGED << msg, procs, nameIn, nameOut, arg, ret >>

\* Lines 737-742: the notice of the catch block settles; when it throws,
\* nothing catches the error and the handler's promise rejects.
ErrorNoticeSettles(h, outcome) ==
  /\ pc[h] = "cbError"
  /\ outcome \in {"ok", "threw"}
  /\ IF outcome = "ok"
       THEN Continue(h, Settle(h, outcome), Settled(h))
       ELSE /\ pc' = [ pc EXCEPT ![h] = "rejected" ]
            /\ calls' = Settle(h, outcome)
            /\ pending' = Settled(h)
            /\ UNCHANGED << idx, cur >>
  /\ UNCHANGED << msg, files, procs, hist, nameIn, nameOut, arg, ret >>

Next ==
  \E h \in Handlers :
    \/ Start(h)
    \/ \E d \in BOOLEAN : Iterate(h, d)
    \/ Finish(h)
    \/ \E o \in {"ok", "notOk", "rejected"} : FetchSettles(h, o)
    \/ \E o \in {"rejected", "writeThrows", "written"} : BodySettles(h, o)
    \/ ProcessError(h)
    \/ \E c \in ExitCodes, out \in StdoutSamples, u \in BOOLEAN :
         ProcessClose(h, c, out, u)
    \/ \E o \in {"ok", "threw"} : FailedNoticeSettles(h, o)
    \/ \E o \in {"ok", "threw"}, u \in BOOLEAN : ChunkSettles(h, o, u)
    \/ \E o \in {"ok", "threw"} : ErrorNoticeSettles(h, o)

\* One message is handled.
Spec == Init /\ [][Next]_vars

\* Two messages are handled concurrently.
SpecConcurrent == InitConcurrent /\ [][Next]_vars

\* One message is handled, and what the handler waits for comes: every
\* fetch, every pipeline process and every callback call settles, and the
\* event loop runs every continuation that is ready.
SpecFair == Init /\ [][Next]_vars /\ WF_vars(Next)

(***************************************************************************)
(* File name derivation on its own: the two attachments of nameIn are      *)
(* taken through lines 649-669.                                            *)
(***************************************************************************)
NameTitles ==
  { << >>, <<"a",".","p","n","g">>, <<".",".","/","x">>, <<".",".">>,
    <<"$"," ","b",".","J","P","G">> }

NameNames == { << >>, <<"n",".","g","i","f">>, <<"\\",".">> }

NameUrls ==
  { << >>, <<"n","o">>,
    <<"https://x","/","y","/","p","i","c",".","J","P","G">>,
    <<"https://x","/","a","/",".",".">>,
    <<"https://x">>,
    <<"https://cdn","/","a"," ","b","?","q",".","p","n","g">>,
    <<"https://x","/","a","\\",".",".","\\","b">> }

NameContentTypes ==
  { << >>, PngType, <<"i","m","a","g","e","/">>, <<"t","/",".",".">>,
    <<"i","m","a","g","e","/","s","v","g","+","x","m","l">> }

NameIds == { <<"1">>, <<"2">>, <<"a","/","b">> }

NameUniverse ==
  [ id : NameIds, title : NameTitles, name : NameNames, url : NameUrls,
    contentType : NameContentTypes, source : {"Image"} ]

\* The attachments the second one is drawn from.
PairUniverse ==
  { AttTitled, AttSameTitle, AttUrlNamed,
    [ AttUrlNamed EXCEPT !.url = <<"https://x","/">> ],
    [ AttUrlNamed EXCEPT !.url = <<"https://x","/">>, !.id = <<"2">> ] }

\* Lines 649-669 for one attachment: skipped, thrown, or the path.
DeriveName(att) ==
  IF att.url = << >>
    THEN [ outcome |-> "skipped", fileName |-> << >>, path |-> << >> ]
  ELSE IF UrlParseThrows(att)
    THEN [ outcome |-> "threw", fileName |-> << >>, path |-> << >> ]
  ELSE [ outcome |-> "path", fileName |-> FileNameOf(att),
         path |-> ImagePathOf(att) ]

InitNames ==
  /\ InitHandlers([ h \in Handlers |-> NoMessage ], {})
  /\ nameIn \in [ a : NameUniverse, b : PairUniverse ]
  /\ nameOut = << >>
  /\ NoCall

DeriveNames ==
  /\ nameOut = << >>
  /\ nameOut' = [ a |-> DeriveName(nameIn.a), b |-> DeriveName(nameIn.b) ]
  /\ UNCHANGED << handlerVars, nameIn, arg, ret >>

NextNames == DeriveNames

SpecNames == InitNames /\ [][NextNames]_vars

(***************************************************************************)
(* The attachment filter on its own (lines 630-635, and the same test in   *)
(* downloadImageAction.validate, lines 188-190).                           *)
(***************************************************************************)
ClassifySources == {"Image", "", "Document"}

ClassifyContentTypes ==
  { << >>, PngType, <<"a","/","p","d","f">>,
    <<"I","M","A","G","E","/","P","N","G">>, <<"i","m","a","g","e">> }

ClassifyUrls ==
  { << >>, <<"https://x","/","y","/","p","i","c",".","J","P","G">>,
    <<"https://x","/","d",".","p","d","f">>,
    <<"https://cdn","/","a",".","p","n","g","?","e","x","=","1">>,
    <<"https://cdn","/","a","/","1">> }

ClassifyTitles == { << >>, <<"a",".","p","n","g">>, <<"d",".","p","d","f">> }

ClassifyNames == { << >>, <<"n",".","G","I","F">> }

ClassifyUniverse ==
  [ id : {<<"1">>}, title : ClassifyTitles, name : ClassifyNames,
    url : ClassifyUrls, contentType : ClassifyContentTypes,
    source : ClassifySources ]

InitClassify ==
  /\ InitHandlers([ h \in Handlers |-> NoMessage ], {})
  /\ nameIn = NoNames
  /\ nameOut = << >>
  /\ arg \in [ attachment : ClassifyUniverse ]
  /\ ret = << >>

\* The filter callback is applied to the attachment.
Classify ==
  /\ ret = << >>
  /\ ret' = [ isImage |-> IsImageAttachment(arg.attachment) ]
  /\ UNCHANGED << handlerVars, nameIn, nameOut, arg >>

NextClassify == Classify

SpecClassify == InitClassify /\ [][NextClassify]_vars

(***************************************************************************)
(* parseChronosResults on its own: stdout is what the pipeline printed     *)
(* before its block, the start marker, the lines of the block, the end     *)
(* marker, and what it printed after.                                      *)
(***************************************************************************)
QuestionLine == << "QUESTION_", "1", ":::", "I","s"," ","X","?" >>

AnswerLine == << "ANSWER_", "1", ":::", " ", "Y","e","s",".", " " >>

\* An answer whose text has the separator in it.
AnswerWithSeparator == << "ANSWER_", "2", ":::", "a", ":::", "b" >>

\* An answer whose text names a question tag.
AnswerNamingQuestion == << "ANSWER_", "3", ":::", "s","e","e"," ", "QUESTION_", "1" >>

\* A question with nothing but white space after the separator.
QuestionWithoutText == << "QUESTION_", "4", ":::", " " >>

BlockLineKinds ==
  { QuestionLine, AnswerLine, AnswerWithSeparator, AnswerNamingQuestion,
    QuestionWithoutText, <<"-","-","-">>, <<"=","=","=">>, << >>,
    <<"l","o","g">> }

\* The largest number of lines in the block.
MaxBlockLines == 3

DiagnosticLine == << "QUESTION_", "9", ":::", "j","u","n","k", "\n" >>

\* What the pipeline prints before the start marker.
TextsBefore ==
  { << >>,
    <<"l","o","g","\n">> \o Border,
    DiagnosticLine,
    <<"n","o"," ">> \o << endMarker >> \o <<"\n">> \o DiagnosticLine,
    <<"n","o"," ">> \o << startMarker >> \o <<"\n">> \o DiagnosticLine }

\* What the pipeline prints after the end marker.
TextsAfter ==
  { << >>,
    <<"\n">> \o Border,
    <<"\n">> \o DiagnosticLine \o << startMarker >> \o <<"\n">>
       \o DiagnosticLine \o << endMarker >> }

\* The text of the block: every line ends with a line feed.
RECURSIVE BlockText(_)
BlockText(lines) ==
  IF lines = << >> THEN << >>
  ELSE lines[1] \o << "\n" >> \o BlockText(Tail(lines))

StdoutOf(before, lines, after) ==
  before \o << startMarker, "\n" >> \o BlockText(lines) \o << endMarker >> \o after

\* The largest number of results the pipeline prints.
MaxResults == 2

\* The texts of the i-th result: each names its index, or is empty, or is
\* white space only.
ResultsOf(n) ==
  [ 1..n -> [ question : {"named", "empty", "blank"},
              owl_answer : {"named", "empty", "blank"} ] ]

ResultText(letter, i, kind) ==
  CASE kind = "named" -> << letter >> \o Decimal(i)
    [] kind = "empty" -> << >>
    [] kind = "blank" -> << " " >>

\* discord_main.py lines 226-229: the three lines printed for each result.
RECURSIVE ResultLines(_, _)
ResultLines(results, i) ==
  IF i > Len(results) THEN << >>
  ELSE << << "QUESTION_" >> \o Decimal(i) \o << ":::" >>
             \o ResultText("q", i, results[i].question),
          << "ANSWER_" >> \o Decimal(i) \o << ":::" >>
             \o ResultText("a", i, results[i].owl_answer),
          << "-", "-", "-" >> >> \o ResultLines(results, i + 1)

\* discord_main.py lines 221-233: the lines between the two markers.
PrintedBlock(results) ==
  << <<"=","=","=">> >> \o ResultLines(results, 1) \o << <<"=","=","=">> >>

PrintedBlocks ==
  { PrintedBlock(results) : results \in UNION { ResultsOf(n) : n \in 1..MaxResults } }

InitParse ==
  /\ InitHandlers([ h \in Handlers |-> NoMessage ], {})
  /\ nameIn = NoNames
  /\ nameOut = << >>
  /\ arg \in [ before : TextsBefore,
               lines  : SeqsUpTo(BlockLineKinds, MaxBlockLines) \cup PrintedBlocks,
               after  : TextsAfter ]
  /\ ret = << >>

\* parseChronosResults(stdout)
Parse ==
  /\ ret = << >>
  /\ ret' = [ results |->
                parseChronosResults(StdoutOf(arg.before, arg.lines, arg.after)) ]
  /\ UNCHANGED << handlerVars, nameIn, nameOut, arg >>

NextParse == Parse

SpecParse == InitParse /\ [][NextParse]_vars

(***************************************************************************)
(* splitDiscordMessage on its own.                                         *)
(***************************************************************************)
\* The code units of the short texts: a letter, a sentence end, white space.
SplitAlphabet == {"a", ".", " ", "\n"}

\* The length of the longest short text.
MaxTextLen == 6

\* The largest limit the short texts are split at.
MaxLimit == 4

\* Texts far beyond the default limit.
LongTexts ==
  { <<"<run2500>", "<run2500>">>,
    <<" ", "<run2500>", " ">>,
    <<"<run1200>", ".", " ", "<run1200>", "!", "<run700>">>,
    <<"a", "\n", "<run2500>", ".", "<run700>", "?", "\n", "a">> }

SplitArgs ==
  [ text : SeqsUpTo(SplitAlphabet, MaxTextLen), maxLength : 1..MaxLimit ]
    \cup [ text : LongTexts, maxLength : {DefaultMaxLength} ]

InitSplit ==
  /\ InitHandlers([ h \in Handlers |-> NoMessage ], {})
  /\ nameIn = NoNames
  /\ nameOut = << >>
  /\ arg \in SplitArgs
  /\ ret = << >>

\* splitDiscordMessage(text, maxLength)
Split ==
  /\ ret = << >>
  /\ ret' = [ chunks |-> splitDiscordMessage(arg.text, arg.maxLength) ]
  /\ UNCHANGED << handlerVars, nameIn, nameOut, arg >>

NextSplit == Split

SpecSplit == InitSplit /\ [][NextSplit]_vars

(***************************************************************************)
(* The log records of runChronosPipeline (lines 381-438).  The code units  *)
(* of a credential are atoms of their own, "<k1>", "<k2>", ..., so that a  *)
(* text holds part of a credential exactly when it holds one such atom.    *)
(***************************************************************************)
SecretUnits ==
  << "<k1>", "<k2>", "<k3>", "<k4>", "<k5>", "<k6>", "<k7>", "<k8>",
     "<k9>", "<k10>", "<k11>", "<k12>", "<k13>", "<k14>", "<k15>", "<k16>",
     "<k17>", "<k18>", "<k19>", "<k20>", "<k21>", "<k22>", "<k23>", "<k24>" >>

\* The second argument of substring in lines 394-395.
LoggedPrefixLen == 20

\* An environment variable: not set, or set to a string.
Undefined == [ defined |-> FALSE, value |-> << >> ]

EnvValues ==
  { Undefined,
    [ defined |-> TRUE, value |-> << >> ],
    [ defined |-> TRUE, value |-> SubSeq(SecretUnits, 1, 5) ],
    [ defined |-> TRUE, value |-> SubSeq(SecretUnits, 1, LoggedPrefixLen) ],
    [ defined |-> TRUE, value |-> SecretUnits ] }

Environments == [ OPENAI_API_KEY : EnvValues, GOOGLE_API_KEY : EnvValues ]

\* `${v?.substring(0, 20)}`: "undefined" for a variable that is not set.
KeyPrefixText(v) ==
  IF ~v.defined THEN << "undefined" >>
  ELSE SubSeq(v.value, 1,
              IF Len(v.value) < LoggedPrefixLen THEN Len(v.value)
              ELSE LoggedPrefixLen)

\* A path as text: its segments after a slash each.
RECURSIVE PathText(_)
PathText(segs) ==
  IF segs = << >> THEN << >>
  ELSE << "/" >> \o segs[1] \o PathText(Tail(segs))

\* message.entityId || 'discord_user'
UserIds == { <<"discord_user">>, <<"4","2">> }

\* Lines 391-395: the records logged before the process is started.
StartRecords(env, imagePath, userId) ==
  << [ level |-> "info",
       text  |-> << "Running Chronos pipeline: ", "<pythonCmd>", " ",
                    "<chronosScript>", " " >>
                   \o PathText(imagePath) \o << " " >> \o userId ],
     [ level |-> "info",
       text  |-> << "ENV check - OPENAI_API_KEY: " >>
                   \o KeyPrefixText(env.OPENAI_API_KEY) \o << ".", ".", "." >> ],
     [ level |-> "info",
       text  |-> << "ENV check - GOOGLE_API_KEY: " >>
                   \o KeyPrefixText(env.GOOGLE_API_KEY) \o << ".", ".", "." >> ] >>

\* Lines 405-416: the record for a piece of output of the process.
DataRecord(stream, output) ==
  IF stream = "stdout"
    THEN [ level |-> "info", text |-> << "[Chronos] " >> \o Trim(output) ]
    ELSE [ level |-> "warn", text |-> << "[Chronos Error] " >> \o Trim(output) ]

\* Lines 419-424: the records of the 'close' event.
CloseRecords(code, stderr) ==
  << [ level |-> "info",
       text  |-> << "Chronos pipeline exited with code ", code >> ] >>
  \o IF code # "0"
       THEN << [ level |-> "error",
                 text  |-> << "Chronos pipeline failed with exit code ", code >> ],
               [ level |-> "error", text |-> << "stderr: " >> \o stderr ] >>
       ELSE << >>

InitLog ==
  /\ InitHandlers([ h \in Handlers |-> NoMessage ], {})
  /\ nameIn = NoNames
  /\ nameOut = << >>
  /\ arg \in [ env : Environments,
               imagePath : { ImagePathOf(AttTitled), ImagePathOf(AttUrlNamed) },
               userId : UserIds ]
  /\ ret = << >>

\* The most 'error' events of one child process.
MaxErrorEvents == 2

\* resolve(value) with a later call taking the place of an earlier one.
ResolveOverwriting(r, value, event) ==
  [ r EXCEPT !.settled = TRUE, !.value = value, !.settledBy = event ]

\* resolve(value): the first call settles the promise, a later call does
\* nothing.  settledBy is the number of the event whose handler settled it.
Resolve(r, value, event) ==
  IF r.settled THEN r
  ELSE [ r EXCEPT !.settled = TRUE, !.value = value, !.settledBy = event ]

\* CloseOutcome parsing stdout whatever the exit code.
CloseOutcomeAlwaysParsing(code, stdout) ==
  [ parsed |-> TRUE, results |-> parseChronosResults(stdout) ]

\* Lines 421-430: what the 'close' handler resolves with, and whether it
\* called parseChronosResults for it.
CloseOutcome(code, stdout) ==
  IF code # "0"
    THEN [ parsed |-> FALSE, results |-> NullResults ]
    ELSE [ parsed |-> TRUE, results |-> parseChronosResults(stdout) ]

\* runChronosPipeline is called: lines 382-400.
PipelineStarts ==
  /\ ret = << >>
  /\ ret' = [ logs   |-> StartRecords(arg.env, arg.imagePath, arg.userId),
              stdout |-> << >>, stderr |-> << >>, pieces |-> 0,
              events |-> << >>, closed |-> FALSE, parses |-> 0,
              settled |-> FALSE, value |-> NullResults, settledBy |-> 0 ]
  /\ UNCHANGED << handlerVars, nameIn, nameOut, arg >>

\* A 'data' event of stdout or stderr; the model has one piece at most.
PipelineData(stream, output) ==
  /\ ret # << >>
  /\ ~ret.closed
  /\ ret.pieces = 0
  /\ ret' = [ ret EXCEPT !.logs = Append(@, DataRecord(stream, output)),
                         !.stdout = IF stream = "stdout" THEN @ \o output ELSE @,
                         !.stderr = IF stream = "stderr" THEN @ \o output ELSE @,
                         !.pieces = 1 ]
  /\ UNCHANGED << handlerVars, nameIn, nameOut, arg >>

\* Lines 418-431: the 'close' event, which a child process emits once.
PipelineCloses(code) ==
  /\ ret # << >>
  /\ ~ret.closed
  /\ LET outcome == CloseOutcome(code, ret.stdout)
         event   == Len(ret.events) + 1
         logged  == [ ret EXCEPT
                        !.logs = @ \o CloseRecords(code, ret.stderr),
                        !.events = Append(@, [ kind |-> "close", code |-> code ]),
                        !.parses = IF outcome.parsed THEN @ + 1 ELSE @,
                        !.closed = TRUE ]
     IN  ret' = Resolve(logged, outcome.results, event)
  /\ UNCHANGED << handlerVars, nameIn, nameOut, arg >>

\* Lines 433-436: the 'error' event (the process could not be started, or
\* an operation on it failed); it may come before or after 'close'.
PipelineError ==
  /\ ret # << >>
  /\ Cardinality({ n \in DOMAIN ret.events : ret.events[n].kind = "error" })
       < MaxErrorEvents
  /\ LET event  == Len(ret.events) + 1
         logged == [ ret EXCEPT
                       !.logs = Append(@, [ level |-> "error",
                                   text |-> << "Failed to spawn Chronos process", " ", "<error>" >> ]),
                       !.events = Append(@, [ kind |-> "error", code |-> "" ]) ]
     IN  ret' = Resolve(logged, NullResults, event)
  /\ UNCHANGED << handlerVars, nameIn, nameOut, arg >>

NextLog ==
  \/ PipelineStarts
  \/ PipelineError
  \/ \E stream \in {"stdout", "stderr"}, output \in { OutNoMarkers, OutOne } :
       PipelineData(stream, output)
  \/ \E code \in ExitCodes : PipelineCloses(code)

SpecLog == InitLog /\ [][NextLog]_vars

(***************************************************************************)
(* Properties                                                              *)
(***************************************************************************)
\* The callback calls handler h issued for its i-th image attachment.
CallsFor(h, i, kinds) ==
  SelectSeq(calls[h], LAMBDA c : c.att = i /\ c.kind \in kinds)

Notices == {"failed", "error"}

\* The handler has left its i-th image attachment behind.
Over(h, i) == i < idx[h] \/ (pc[h] = "rejected" /\ i = idx[h])

Ended(h) == pc[h] \in {"done", "rejected"}

Indices(h) == 1..Len(Atts(h))

\* C1: with a callback, an attachment that failed at acquisition, at
\* invocation or at extraction got exactly one failure notice through the
\* callback, and every later image attachment of the message was processed.
C1_OneNoticeAndGoOn ==
  \A h \in Handlers :
    (msg[h].hasCallback /\ Ended(h)) =>
      \A i \in Indices(h) :
        hist[h][i].fate \in {"acquire", "invoke", "extract"} =>
          /\ Len(SelectSeq(CallsFor(h, i, Notices),
                           LAMBDA c : c.outcome = "ok")) = 1
          /\ \A j \in Indices(h) : j > i => hist[h][j].visited

\* C2: an image attachment without a URL got one failure notice through the
\* callback before the handler went on.
C2_MissingUrlNoticed ==
  \A h \in Handlers :
    msg[h].hasCallback =>
      \A i \in Indices(h) :
        (Over(h, i) /\ hist[h][i].fate = "nourl") =>
          Len(CallsFor(h, i, Notices)) = 1

\* C3: no error escapes the handler: it never rejects, and when it has
\* returned it has visited every image attachment.
C3_NoErrorEscapes ==
  \A h \in Handlers :
    /\ pc[h] # "rejected"
    /\ pc[h] = "done" => \A i \in Indices(h) : hist[h][i].visited

\* C4: a file the handler wrote for an attachment has had its deletion
\* attempted by the time the handler has left that attachment.
C4_DeletionAttempted ==
  \A h \in Handlers :
    \A i \in Indices(h) :
      (Over(h, i) /\ hist[h][i].wrote) => hist[h][i].unlinkTried

\* C5: a handler has at most one pipeline process running; its attachments
\* are visited in list order; and while it downloads an attachment, no
\* process of its own runs, no callback call of its own is in flight, and
\* every earlier attachment has been visited.
C5_OneAtATime ==
  \A h \in Handlers :
    /\ Cardinality({ p \in procs : p.owner = h }) <= 1
    /\ \A i \in Indices(h) :
         hist[h][i].visited <=>
           (i <= idx[h] /\ (i = idx[h] => pc[h] \notin {"start", "loop"}))
    /\ pc[h] \in {"fetch", "body"} =>
         /\ \A p \in procs : p.owner # h
         /\ pending[h] = 0
         /\ \A c \in Range(calls[h]) : c.att < idx[h] /\ c.outcome # "pending"
    /\ \A p \in procs : p.owner = h => (p.att = idx[h] /\ pc[h] = "pipeline")

\* C5 witness: the second attachment is being downloaded after a pipeline
\* ran for the first and a chunk of it was delivered.
C5_Witness ==
  \E h \in Handlers :
    /\ pc[h] = "body"
    /\ idx[h] = 2
    /\ hist[h][1].spawned = 1
    /\ CallsFor(h, 1, {"chunk"}) # << >>

\* C6: the chunks of an attachment reach the callback in the order
\* splitDiscordMessage returned them; a call is issued only after the one
\* before it has settled; and between two chunk calls of an attachment there
\* is no call for another attachment.
C6_ChunksInOrder ==
  \A h \in Handlers :
    /\ pending[h] <= 1
    /\ pending[h] = Cardinality({ n \in DOMAIN calls[h] :
                                    calls[h][n].outcome = "pending" })
    /\ \A n \in DOMAIN calls[h] :
         calls[h][n].outcome = "pending" => n = Len(calls[h])
    /\ \A i \in Indices(h) :
         LET sent == CallsFor(h, i, {"chunk"})
         IN  /\ Len(sent) <= Len(hist[h][i].report)
             /\ \A n \in DOMAIN sent : sent[n].text = hist[h][i].report[n]
    /\ \A a, b, c \in DOMAIN calls[h] :
         ( /\ a < b /\ b < c
           /\ calls[h][a].kind = "chunk" /\ calls[h][c].kind = "chunk"
           /\ calls[h][a].att = calls[h][c].att )
         => (calls[h][b].kind = "chunk" /\ calls[h][b].att = calls[h][a].att)

\* C6 witness: a report of several chunks was delivered whole for the first
\* attachment, and the callback has been called for the second one too.
C6_Witness ==
  \E h \in Handlers :
    /\ Len(Atts(h)) = 2
    /\ Len(hist[h][1].report) >= 3
    /\ Len(CallsFor(h, 1, {"chunk"})) = Len(hist[h][1].report)
    /\ \E c \in Range(calls[h]) : c.att = 2

\* C7, as claimed: the chunks passed to the callback for an attachment are
\* all chunks of its report or none.
C7_AllOrNothing ==
  \A h \in Handlers :
    \A i \in Indices(h) :
      Over(h, i) =>
        Len(CallsFor(h, i, {"chunk"})) \in {0, Len(hist[h][i].report)}

\* C7, amended: the chunks passed are the first chunks of the report, each
\* passed after the one before it returned; once the handler has left the
\* attachment they are the whole report, unless there is no callback (none
\* is passed) or a call threw, and then the chunk of that call is the last.
C7_PrefixUntilThrow ==
  \A h \in Handlers :
    \A i \in Indices(h) :
      LET sent   == CallsFor(h, i, {"chunk"})
          report == hist[h][i].report
      IN  /\ Len(sent) <= Len(report)
          /\ \A n \in DOMAIN sent :
               /\ sent[n].text = report[n]
               /\ n < Len(sent) => sent[n].outcome = "ok"
          /\ ~msg[h].hasCallback => sent = << >>
          /\ (Over(h, i) /\ msg[h].hasCallback) =>
               \/ Len(sent) = Len(report)
               \/ sent[Len(sent)].outcome = "threw"

\* C7 witness: the handler has left an attachment whose second chunk threw:
\* the first chunk was delivered, the third never passed.
C7_Witness ==
  \E h \in Handlers :
    \E i \in Indices(h) :
      LET sent == CallsFor(h, i, {"chunk"})
      IN  /\ Over(h, i)
          /\ Len(sent) = 2
          /\ Len(hist[h][i].report) >= 3
          /\ sent[1].outcome = "ok"
          /\ sent[2].outcome = "threw"

\* C8: nothing serializes the pipeline across messages: a handler that has
\* called runChronosPipeline has its own process running at once, whatever
\* the other handler's process does.
C8_NoPipelineLock ==
  \A h \in Handlers :
    pc[h] = "pipeline" => \E p \in procs : p.owner = h

\* C8 witness: both handlers have a pipeline process running.
C8_Witness ==
  /\ \A h \in Handlers : \E p \in procs : p.owner = h
  /\ Cardinality(procs) = 2

\* C9: two attachments with distinct identifiers are stored under distinct
\* paths.
C9_DistinctIdsDistinctPaths ==
  ( /\ nameOut # << >>
    /\ nameOut.a.outcome = "path"
    /\ nameOut.b.outcome = "path"
    /\ nameIn.a.id # nameIn.b.id )
  => nameOut.a.path # nameOut.b.path

\* C10: the path an image is written to is a direct child of temp_images
\* and its file name has only letters, digits, dot, underscore and hyphen;
\* so it has no path separator and is neither "." nor "..".
C10_SafePath ==
  nameOut # << >> =>
    \A r \in { nameOut.a, nameOut.b } :
      r.outcome = "path" =>
        /\ Len(r.path) = Len(TempDir) + 1
        /\ SubSeq(r.path, 1, Len(TempDir)) = TempDir
        /\ r.path[Len(r.path)] = r.fileName
        /\ Range(r.fileName) \subseteq AllowedChars
        /\ "/" \notin Range(r.fileName)
        /\ "\\" \notin Range(r.fileName)
        /\ r.fileName \notin { <<".">>, <<".",".">> }

\* C10 witness: a path was derived from a name that climbs out of the
\* directory ("../x"), and it is a child of temp_images all the same.
C10_Witness ==
  /\ nameOut # << >>
  /\ nameOut.a.outcome = "path"
  /\ IsPrefix(<<".",".","/">>, BaseName(nameIn.a))
  /\ Len(nameOut.a.path) = Len(TempDir) + 1

\* C11: the filter answers true exactly when the source tag is 'Image', or
\* the content type begins with 'image/', or the URL, the title or the name
\* ends (whatever the case) with one of the image extensions.
C11_ClassifierByUrlOrFilename ==
  ret # << >> =>
    LET att == arg.attachment
    IN  ret.isImage <=>
          \/ att.source = "Image"
          \/ IsPrefix(<<"i","m","a","g","e","/">>, att.contentType)
          \/ HasImageExt(att.url)
          \/ HasImageExt(att.title)
          \/ HasImageExt(att.name)

\* C12: with a callback, the 'failed to process' notice is sent for an
\* attachment exactly when the pipeline or the parser reported no results
\* (exit code not 0, launch error, a marker missing); an empty block between
\* the two markers is not handled as a failure.
C12_FailedNoticeOnlyOnNoResults ==
  \A h \in Handlers :
    msg[h].hasCallback =>
      \A i \in Indices(h) :
        Over(h, i) =>
          ( CallsFor(h, i, {"failed"}) # << >>
              <=> hist[h][i].fate \in {"invoke", "extract"} )

\* C13: what is printed before the start marker and after the end marker
\* does not change the questions and answers: they are those of the block
\* alone, also when the text outside has QUESTION_/ANSWER_ lines or a marker
\* literal in it.
C13_OutsideIgnored ==
  ret # << >> =>
    ret.results = parseChronosResults(StdoutOf(<< >>, arg.lines, << >>))

\* The text a tagged line stands for in C15: all that follows the first
\* separator, trimmed.
TextAfterSeparator(line) ==
  Trim(SubSeq(line, IndexOf(line, ":::") + 1, Len(line)))

\* The texts of the lines that carry the tag and the separator, in order.
RECURSIVE TaggedTexts(_, _)
TaggedTexts(lines, tag) ==
  IF lines = << >> THEN << >>
  ELSE LET line == lines[1]
       IN  IF KeptLine(line) /\ tag \in Range(line) /\ ":::" \in Range(line)
             THEN << TextAfterSeparator(line) >> \o TaggedTexts(Tail(lines), tag)
             ELSE TaggedTexts(Tail(lines), tag)

\* C15: every line of the block that is not blank, not '---' and not a
\* border gives one question when it carries QUESTION_ and ':::', and one
\* answer when it carries ANSWER_ and ':::'; the text is all that follows
\* the separator, trimmed; both sequences are in the order of the lines.
C15_EveryTaggedLineCounts ==
  (ret # << >> /\ arg.before = << >> /\ arg.after = << >>) =>
    /\ ~ret.results.null
    /\ ret.results.questions = TaggedTexts(arg.lines, "QUESTION_")
    /\ ret.results.answers = TaggedTexts(arg.lines, "ANSWER_")

\* The smaller of two numbers.
Min(a, b) == IF a <= b THEN a ELSE b

\* The first min(m, n) questions with the first min(m, n) answers.
PairedResults(results) ==
  LET n == Min(Len(results.questions), Len(results.answers))
  IN  [ results EXCEPT !.questions = SubSeq(@, 1, n),
                       !.answers = SubSeq(@, 1, n) ]

\* C14: the report of an attachment has min(m, n) question/answer pairs for
\* m questions and n answers, the i-th question with the i-th answer: it is
\* the report of the paired results, and what exceeds the shorter sequence
\* does not appear.
C14_ShorterSequenceBounds ==
  \A h \in Handlers :
    \A i \in Indices(h) :
      hist[h][i].fate = "report" =>
        hist[h][i].report =
          splitDiscordMessage(responseText(PairedResults(hist[h][i].results)),
                              DefaultMaxLength)

\* Discord's limit on the length of a message.
DiscordLimit == 2000

\* C19: every chunk of a report passed to the callback has at most 2000
\* characters.
C19_ChunksWithinDiscordLimit ==
  \A h \in Handlers :
    \A c \in Range(calls[h]) :
      c.kind = "chunk" => StrLen(c.text) <= DiscordLimit

\* The sentences of the lines of the text that are longer than the limit.
LongLineSentences(text, maxLength) ==
  UNION { Range(Sentences(line)) :
            line \in { l \in Range(SplitOn(text, "\n")) : StrLen(l) > maxLength } }

\* C16: every chunk is at most maxLength long, except a chunk that is one
\* sentence (or one line without a sentence end) longer than maxLength.
C16_ChunksWithinLimit ==
  ret # << >> =>
    \A n \in DOMAIN ret.chunks :
      \/ StrLen(ret.chunks[n]) <= arg.maxLength
      \/ \E st \in LongLineSentences(arg.text, arg.maxLength) :
           /\ StrLen(st) > arg.maxLength
           /\ ret.chunks[n] = Trim(st)

\* C16 witness: a text was split into three chunks or more, one of them an
\* over-long sentence and one within the limit.
C16_Witness ==
  /\ ret # << >>
  /\ Len(ret.chunks) >= 3
  /\ \E n \in DOMAIN ret.chunks : StrLen(ret.chunks[n]) > arg.maxLength
  /\ \E n \in DOMAIN ret.chunks :
       ret.chunks[n] # << >> /\ StrLen(ret.chunks[n]) <= arg.maxLength

\* The code units of s that are not white space.
NonWhite(s) == SelectSeq(s, LAMBDA c : c \notin WhiteSpace)

RECURSIVE Concat(_)
Concat(seqs) == IF seqs = << >> THEN << >> ELSE seqs[1] \o Concat(Tail(seqs))

\* C17: nothing but white space is lost: the code units of the chunks that
\* are not white space, read in chunk order, are those of the text.
C17_NoContentDropped ==
  ret # << >> => NonWhite(Concat(ret.chunks)) = NonWhite(arg.text)

\* C18, as claimed: a sentence (or a line without a sentence end) longer
\* than the limit is a chunk as it stands, and a text that is one such line
\* gives that line as its only chunk.
C18_OversizedVerbatim ==
  ret # << >> =>
    /\ \A st \in LongLineSentences(arg.text, arg.maxLength) :
         StrLen(st) > arg.maxLength => st \in Range(ret.chunks)
    /\ ( /\ StrLen(arg.text) > arg.maxLength
         /\ Range(arg.text) \cap (SentenceEnd \cup {"\n"}) = {} )
       => ret.chunks = << arg.text >>

\* C18, amended: a sentence (or a line without a sentence end) longer than
\* the limit is a chunk of its own once its surrounding white space is
\* trimmed, cut nowhere else; a text that is one such line gives the trimmed
\* line as its only chunk.
C18_OversizedTrimmed ==
  ret # << >> =>
    /\ \A st \in LongLineSentences(arg.text, arg.maxLength) :
         StrLen(st) > arg.maxLength => Trim(st) \in Range(ret.chunks)
    /\ ( /\ StrLen(arg.text) > arg.maxLength
         /\ Range(arg.text) \cap (SentenceEnd \cup {"\n"}) = {} )
       => ret.chunks = << Trim(arg.text) >>

\* C18 witness: a line of 2502 code units without a sentence end, white
\* space at both ends, was split at 1900: the only chunk is the 2500 letters.
C18_Witness ==
  /\ ret # << >>
  /\ arg.text = <<" ", "<run2500>", " ">>
  /\ arg.maxLength = DefaultMaxLength
  /\ ret.chunks = << <<"<run2500>">> >>

\* The credentials of the environment.
Credentials(env) ==
  { v.value : v \in { env.OPENAI_API_KEY, env.GOOGLE_API_KEY } }

\* C20: no record that runChronosPipeline logs holds a credential of the
\* environment or any part of one.
C20_NoCredentialLogged ==
  ret # << >> =>
    \A n \in DOMAIN ret.logs :
      \A value \in Credentials(arg.env) :
        Range(ret.logs[n].text) \cap Range(value) = {}

\* C21: without a callback the handler visits every image attachment and
\* takes it through download, pipeline and parsing as it would with one (a
\* file that was written had its process, a report was computed from the
\* parsed results), it never calls or waits for a callback, and it never
\* rejects.
C21_NoCallbackStillRuns ==
  \A h \in Handlers :
    ~msg[h].hasCallback =>
      /\ calls[h] = << >>
      /\ pending[h] = 0
      /\ pc[h] \notin {"cbFailed", "cbChunk", "cbError", "rejected"}
      /\ pc[h] = "done" => \A i \in Indices(h) : hist[h][i].visited
      /\ \A i \in Indices(h) :
           Over(h, i) =>
             /\ hist[h][i].fate # "none"
             /\ hist[h][i].wrote <=> hist[h][i].spawned = 1
             /\ hist[h][i].wrote <=>
                  hist[h][i].fate \in {"invoke", "extract", "empty", "report"}
             /\ hist[h][i].fate = "report" =>
                  /\ ~hist[h][i].results.null
                  /\ hist[h][i].report =
                       splitDiscordMessage(responseText(hist[h][i].results),
                                           DefaultMaxLength)
                  /\ hist[h][i].unlinkTried

\* C21 witness: a handler without a callback has returned; the download of
\* its first attachment failed and a report was computed for the second.
C21_Witness ==
  \E h \in Handlers :
    /\ ~msg[h].hasCallback
    /\ pc[h] = "done"
    /\ Len(Atts(h)) = 2
    /\ hist[h][1].fate = "acquire"
    /\ hist[h][2].fate = "report"
    /\ Len(hist[h][2].report) >= 3

\* C22: stdout is parsed at most once and only by a 'close' event with exit
\* code 0; with another code, or with 'error' events alone, nothing is
\* parsed and the outcome is null, whatever stdout holds.
C22_ParsedOnlyOnExitZero ==
  ret # << >> =>
    LET zero == { n \in DOMAIN ret.events :
                    ret.events[n].kind = "close" /\ ret.events[n].code = "0" }
    IN  /\ ret.parses <= 1
        /\ ret.parses = 1 <=> zero # {}
        /\ (ret.settled /\ zero = {}) => ret.value.null

\* C22 witness: the process printed a complete results block and closed
\* with exit code 1: nothing was parsed and the promise resolved with null.
C22_Witness ==
  /\ ret # << >>
  /\ ret.stdout = OutOne
  /\ ret.events = << [ kind |-> "close", code |-> "1" ] >>
  /\ ret.parses = 0
  /\ ret.settled
  /\ ret.value.null

\* The outcome of the first event of the child process.
FirstOutcome(r) ==
  IF r.events[1].kind = "close" /\ r.events[1].code = "0"
    THEN parseChronosResults(r.stdout)
    ELSE NullResults

\* C28: the promise of runChronosPipeline is pending until the first
\* 'close' or 'error' event, settles with the outcome of that event, and no
\* later event changes its value.
C28_SettledOnceByFirstEvent ==
  ret # << >> =>
    /\ ret.settled <=> ret.events # << >>
    /\ ret.settled =>
         /\ ret.settledBy = 1
         /\ ret.value = FirstOutcome(ret)

\* C28 witness: an 'error' event came first and the process then closed
\* with exit code 0 and a complete results block: stdout was parsed, and the
\* promise kept the null of the 'error' event.
C28_Witness ==
  /\ ret # << >>
  /\ ret.stdout = OutOne
  /\ ret.events = << [ kind |-> "error", code |-> "" ],
                     [ kind |-> "close", code |-> "0" ] >>
  /\ ret.parses = 1
  /\ ret.value.null

\* C23: an attachment has had one process spawned for it when its image
\* was written and none otherwise (download failed, no URL, no directory);
\* a running process belongs to the attachment its handler is at, runs on
\* the file written for that attachment, and a handler waiting for the
\* pipeline has such a process.
C23_OneProcessPerWrittenImage ==
  \A h \in Handlers :
    /\ \A i \in Indices(h) :
         /\ hist[h][i].spawned = IF hist[h][i].wrote THEN 1 ELSE 0
         /\ hist[h][i].fate \in {"mkdir", "nourl", "acquire"} =>
              hist[h][i].spawned = 0
    /\ \A p \in procs :
         p.owner = h =>
           /\ p.att = idx[h]
           /\ hist[h][p.att].wrote
           /\ p.path = hist[h][p.att].path
    /\ pc[h] = "pipeline" =>
         Cardinality({ p \in procs : p.owner = h /\ p.att = idx[h] }) = 1

\* C23 witness: the download of the first attachment failed and no process
\* ran for it; the process of the second attachment is running.
C23_Witness ==
  \E h \in Handlers :
    /\ Len(Atts(h)) = 2
    /\ idx[h] = 2
    /\ pc[h] = "pipeline"
    /\ hist[h][1].fate = "acquire"
    /\ hist[h][1].spawned = 0
    /\ hist[h][2].spawned = 1
    /\ \E p \in procs : p.owner = h /\ p.att = 2

\* C24: nothing locks temp_images: when a handler writes its image, the
\* file at that path becomes its own, whoever wrote the path before and
\* whatever process runs on it.
C24_NoDirectoryLock ==
  [][ \A h \in Handlers :
        (pc[h] = "body" /\ pc'[h] = "pipeline") =>
          [ path |-> cur[h].imagePath, owner |-> h, att |-> idx[h] ] \in files'
    ]_vars

\* C24 witness: a pipeline process runs on a path whose file is now the one
\* the other handler wrote over it.
C24_Witness ==
  \E p \in procs :
    \E f \in files :
      /\ f.path = p.path
      /\ f.owner # p.owner

\* C25: when every fetch, every pipeline process and every callback call
\* settles, the handler comes to its end having processed every image
\* attachment.
C25_EndsAfterEveryAttachment ==
  \A h \in Handlers :
    <>(pc[h] = "done" /\ \A i \in Indices(h) : hist[h][i].visited)

\* C26: the file name comes from the title if it is not empty, else from
\* the name, else from the last segment of the URL's path if it is not
\* empty, else it is "image_" followed by the identifier; the chosen name
\* is stored as it is (sanitized) when it ends with an image extension in
\* any case, and with a dot and an extension appended otherwise.
C26_NameByPrecedence ==
  nameOut # << >> =>
    \A side \in { "a", "b" } :
      LET att    == nameIn[side]
          r      == nameOut[side]
          seg    == LastSegment(URLPathname(att.url))
          chosen == CASE att.title # << >> -> att.title
                      [] att.title = << >> /\ att.name # << >> -> att.name
                      [] att.title = << >> /\ att.name = << >> /\ seg # << >> -> seg
                      [] OTHER -> ImagePrefix \o att.id
          last(n) == IF Len(chosen) >= n
                       THEN ToLower(SubSeq(chosen, Len(chosen) - n + 1, Len(chosen)))
                       ELSE << >>
          ends   == \/ last(4) \in { <<".","j","p","g">>, <<".","p","n","g">>,
                                     <<".","g","i","f">>, <<".","b","m","p">> }
                    \/ last(5) \in { <<".","j","p","e","g">>,
                                     <<".","w","e","b","p">> }
      IN  r.outcome = "path" =>
            /\ ends => r.fileName = Sanitize(chosen)
            /\ ~ends => /\ Len(r.fileName) > Len(chosen) + 1
                        /\ SubSeq(r.fileName, 1, Len(chosen) + 1)
                             = Sanitize(chosen \o << "." >>)

\* C26 witness: the attachment of scenario C (URL https://x/y/pic.JPG, no
\* title, no name, no content type) is stored as pic.JPG.
C26_Witness ==
  /\ nameOut # << >>
  /\ nameIn.a.url = <<"https://x","/","y","/","p","i","c",".","J","P","G">>
  /\ nameIn.a.title = << >>
  /\ nameIn.a.name = << >>
  /\ nameIn.a.contentType = << >>
  /\ nameOut.a.outcome = "path"
  /\ nameOut.a.fileName = <<"p","i","c",".","J","P","G">>

\* Lines 706-709: the pairs of the report, the i-th question with the i-th
\* answer.
ShownPairs(results) ==
  [ i \in 1..Len(results.questions) |->
      [ question |-> results.questions[i], answer |-> AnswerText(results, i) ] ]

\* C27: when the block is the one the pipeline prints for its results, one
\* QUESTION_i and one ANSWER_i line for each i, every pair of the report
\* that has a question and an answer has them from the same index i, empty
\* and blank texts included among the results (nothing is printed before
\* the start marker or after the end marker).
C27_PairsShareIndex ==
  ( /\ ret # << >>
    /\ arg.lines \in PrintedBlocks
    /\ arg.before = << >>
    /\ arg.after = << >> ) =>
    \A i \in DOMAIN ShownPairs(ret.results) :
      LET pair == ShownPairs(ret.results)[i]
      IN  pair.answer # << "undefined" >> =>
            Tail(pair.question) = Tail(pair.answer)

\* C29: for a text with at least one code unit that is not white space,
\* and every limit of 1 or more, no chunk is the empty string.
C29_NoEmptyChunk ==
  (ret # << >> /\ NonWhite(arg.text) # << >> /\ arg.maxLength >= 1) =>
    \A n \in DOMAIN ret.chunks : ret.chunks[n] # << >>

=============================================================================
